---- MODULE Spec2Model ----
(***************************************************************************)
(* Model of z-quantum-core's symbolic-expression translation (the Quil     *)
(* dialect and expression_from_pyquil), the Ansatz base class and the mock *)
(* quantum simulator.                                                      *)
(***************************************************************************)
EXTENDS Integers, Sequences, FiniteSets, TLC

VARIABLES
    dialect,   \* the dialect object shared by every translate call
    th,        \* per thread: the translate call it is running
    ansatz,    \* the fields of an Ansatz object
    history,   \* what the methods of the ansatz have done so far
    simulator  \* the last call of MockQuantumSimulator.get_expectation_values

vars == <<dialect, th, ansatz, history, simulator>>

(***************************************************************************)
(* Bounds of the model.                                                    *)
(***************************************************************************)
\* numeric literals of the input trees are 0..MaxNumber
MaxNumber == 2
\* calls of translate one thread makes, one after the other
MaxCalls == 2
\* number_of_layers of the ansatz is 1..MaxLayers
MaxLayers == 2
\* operations performed on one ansatz object
MaxOps == 3
\* the circuits handed to the simulator have 0..MaxQubits qubits
MaxQubits == 2
\* the operators handed to the simulator have at most MaxTerms terms
MaxTerms == 3
\* random.random() takes the values 0/Resolution .. (Resolution-1)/Resolution
Resolution == 2

Threads == {"t1", "t2"}
SymbolNames == {"x", "y"}

(***************************************************************************)
(* Python numbers.  A number is kept as a reduced fraction num/den so that *)
(* 2 and 2.0 are the same value, as they are under Python's ==.            *)
(***************************************************************************)
Abs(n) == IF n < 0 THEN -n ELSE n

RECURSIVE GCD(_, _)
GCD(a, b) == IF b = 0 THEN a ELSE GCD(b, a % b)

PyNumber(n, d) ==
    LET g == GCD(Abs(n), Abs(d))
        s == IF d < 0 THEN -1 ELSE 1
    IN  [kind |-> "Number", num |-> (s * n) \div g, den |-> (s * d) \div g]

IsNumber(v) == v.kind = "Number"

Ok(v) == [ok |-> TRUE, value |-> v]
Err(type, info) == [ok |-> FALSE, error |-> [type |-> type, info |-> info]]

RECURSIVE IntPow(_, _)
IntPow(b, e) == IF e = 0 THEN 1 ELSE b * IntPow(b, e - 1)

\* a ** b on two Python numbers
PyPow(a, b) ==
    IF b.den = 1
    THEN IF b.num >= 0
         THEN Ok(PyNumber(IntPow(a.num, b.num), IntPow(a.den, b.num)))
         ELSE IF a.num = 0
              THEN Err("ZeroDivisionError", <<a, b>>)
              ELSE Ok(PyNumber(IntPow(a.den, -b.num), IntPow(a.num, -b.num)))
    ELSE IF a.num = 0
         THEN IF b.num > 0 THEN Ok(PyNumber(0, 1))
                           ELSE Err("ZeroDivisionError", <<a, b>>)
         ELSE IF a.num = a.den
              THEN Ok(PyNumber(1, 1))
              \* an irrational (or complex) power: kept as the exact value
              ELSE Ok([kind |-> "Number", base |-> a, exponent |-> b])

\* the arithmetic of two Python numbers, by the name of the operator
PyArith(kind, a, b) ==
    CASE kind = "Add" -> Ok(PyNumber(a.num * b.den + b.num * a.den, a.den * b.den))
      [] kind = "Sub" -> Ok(PyNumber(a.num * b.den - b.num * a.den, a.den * b.den))
      [] kind = "Mul" -> Ok(PyNumber(a.num * b.num, a.den * b.den))
      [] kind = "Div" -> IF b.num = 0 THEN Err("ZeroDivisionError", <<a, b>>)
                         ELSE Ok(PyNumber(a.num * b.den, a.den * b.num))
      [] kind = "Pow" -> PyPow(a, b)

(***************************************************************************)
(* Expression trees: the backend-agnostic input of the translator.         *)
(***************************************************************************)
Number(n) == [kind |-> "Number", value |-> PyNumber(n, 1)]
Symbol(s) == [kind |-> "Symbol", name |-> s]
FunctionCall(name, args) == [kind |-> "FunctionCall", name |-> name, args |-> args]
\* a node of a kind the translator has no case for
Other(v, type) == [kind |-> "Other", value |-> v, type |-> type]

(***************************************************************************)
(* pyquil's native expressions, as far as the Quil dialect builds them.    *)
(***************************************************************************)
Parameter(name) == [kind |-> "Parameter", name |-> name]
Function(name, expression) ==
    [kind |-> "Function", name |-> name, expression |-> expression]
BinaryExp(kind, op1, op2) == [kind |-> kind, op1 |-> op1, op2 |-> op2]

\* a binary operator of module operator applied to positional arguments:
\* plain arithmetic on two numbers, pyquil's overloaded operator otherwise
BinaryOperator(kind, args) ==
    IF Len(args) # 2 THEN Err("TypeError", args)
    ELSE IF IsNumber(args[1]) /\ IsNumber(args[2])
         THEN PyArith(kind, args[1], args[2])
         ELSE Ok(BinaryExp(kind, args[1], args[2]))

\* quilatom.quil_cos and its siblings
QuilFunction(name, args) ==
    IF Len(args) # 1 THEN Err("TypeError", args)
    ELSE Ok(Function(name, args[1]))

\* tan with numerator and denominator exchanged
QuilTanInverted(args) ==
    IF Len(args) # 1 THEN Err("TypeError", args)
    ELSE Ok(BinaryExp("Div", Function("COS", args[1]), Function("SIN", args[1])))

\* lambda arg: quilatom.quil_sin(arg) / quilatom.quil_cos(arg)
QuilTan(args) ==
    IF Len(args) # 1 THEN Err("TypeError", args)
    ELSE Ok(BinaryExp("Div", Function("SIN", args[1]), Function("COS", args[1])))

(***************************************************************************)
(* QUIL_DIALECT                                                            *)
(***************************************************************************)
\* a factory that names every parameter alike
QUIL_symbol_factory_anonymous(symbol) == Parameter("theta")

QUIL_symbol_factory(symbol) == Parameter(symbol.name)

\* a factory that coerces the literal to an integer
QUIL_number_factory_truncating(number) == PyNumber(number.num \div number.den + 1, 1)

QUIL_number_factory(number) == number

QUIL_function_names ==
    {"add", "mul", "div", "sub", "pow", "cos", "sin", "exp", "sqrt", "tan"}

QUIL_known_functions(name, args) ==
    CASE name = "add"  -> BinaryOperator("Add", args)
      [] name = "mul"  -> BinaryOperator("Mul", args)
      [] name = "div"  -> BinaryOperator("Div", args)
      [] name = "sub"  -> BinaryOperator("Sub", args)
      [] name = "pow"  -> BinaryOperator("Pow", args)
      [] name = "cos"  -> QuilFunction("COS", args)
      [] name = "sin"  -> QuilFunction("SIN", args)
      [] name = "exp"  -> QuilFunction("EXP", args)
      [] name = "sqrt" -> QuilFunction("SQRT", args)
      [] name = "tan"  -> QuilTan(args)

(***************************************************************************)
(* The dialect of the round-trip scenario: add, mul and cos only, numbers  *)
(* passed through, a symbol translated to its name.  Its native values are *)
(* the terms of the arithmetic.                                            *)
(***************************************************************************)
SCENARIO_symbol_factory(symbol) == [kind |-> "Name", name |-> symbol.name]

SCENARIO_number_factory(number) == number

SCENARIO_function_names == {"add", "mul", "cos"}

SCENARIO_known_functions(name, args) ==
    CASE name = "add" -> BinaryOperator("Add", args)
      [] name = "mul" -> BinaryOperator("Mul", args)
      [] name = "cos" -> QuilFunction("cos", args)

Dialects == {"QUIL_DIALECT", "SCENARIO_DIALECT"}

symbol_factory(d, symbol) ==
    IF d = "QUIL_DIALECT" THEN QUIL_symbol_factory(symbol)
                          ELSE SCENARIO_symbol_factory(symbol)

number_factory(d, number) ==
    IF d = "QUIL_DIALECT" THEN QUIL_number_factory(number)
                          ELSE SCENARIO_number_factory(number)

function_names(d) ==
    IF d = "QUIL_DIALECT" THEN QUIL_function_names ELSE SCENARIO_function_names

known_functions(d, name, args) ==
    IF d = "QUIL_DIALECT" THEN QUIL_known_functions(name, args)
                          ELSE SCENARIO_known_functions(name, args)

(***************************************************************************)
(* expression_from_pyquil: single dispatch on the type of the expression,  *)
(* with Number the only registered type.                                   *)
(***************************************************************************)
identity(number) == number

\* a dispatch whose default returns the expression instead of raising
expression_from_pyquil_permissive(expression) == Ok(expression)

expression_from_pyquil(expression) ==
    IF IsNumber(expression)
    THEN Ok(identity(expression))
    ELSE Err("NotImplementedError",
             [expression |-> expression, type |-> expression.kind])

(***************************************************************************)
(* The translator, one step at a time.  A call keeps a stack of frames,    *)
(* one per node being translated: the node and the translations of the     *)
(* children finished so far.  calls lists the invocations of the dialect's *)
(* callables and produced the value each finished node translated to, both *)
(* under the node's path (the child indices from the root).                *)
(***************************************************************************)
Frame(node) == [node |-> node, vals |-> <<>>]

Idle == [pc |-> "idle", n |-> 0, tree |-> Other("none", "NoneType"), stack |-> <<>>,
         outcome |-> Ok(Other("none", "NoneType")), calls |-> <<>>,
         produced |-> {}, back |-> Ok(Other("none", "NoneType"))]

Call(tree, n) == [Idle EXCEPT !.pc = "running", !.n = n, !.tree = tree,
                              !.stack = <<Frame(tree)>>]

Top(s) == s.stack[Len(s.stack)]

\* the path of the node on top of the stack
PathOf(stack) == [i \in 1..(Len(stack) - 1) |-> Len(stack[i].vals) + 1]

\* the node on top of the stack is finished with value v
Return(s, v) ==
    LET n == Len(s.stack)
        q == [s EXCEPT !.produced = @ \cup {[path |-> PathOf(s.stack), value |-> v]}]
    IN  IF n = 1
        THEN [q EXCEPT !.stack = <<>>, !.pc = "done", !.outcome = Ok(v)]
        ELSE [q EXCEPT !.stack = [i \in 1..(n - 1) |->
                                    IF i = n - 1
                                    THEN [@[i] EXCEPT !.vals = Append(@, v)]
                                    ELSE @[i]]]

\* an exception unwinds the whole call: the translator catches nothing
Raise(s, e) == [s EXCEPT !.stack = <<>>, !.pc = "done", !.outcome = e]

Running(t) == th[t].pc = "running"

translate_number(t) ==
    /\ Running(t) /\ Top(th[t]).node.kind = "Number"
    /\ th' = [th EXCEPT ![t] =
                Return(@, number_factory(dialect, Top(th[t]).node.value))]
    /\ UNCHANGED <<dialect, ansatz, history, simulator>>

translate_symbol(t) ==
    /\ Running(t) /\ Top(th[t]).node.kind = "Symbol"
    /\ th' = [th EXCEPT ![t] = Return(@, symbol_factory(dialect, Top(th[t]).node))]
    /\ UNCHANGED <<dialect, ansatz, history, simulator>>

translate_unsupported(t) ==
    /\ Running(t) /\ Top(th[t]).node.kind = "Other"
    /\ th' = [th EXCEPT ![t] =
                Raise(@, Err("UnsupportedExpressionKind",
                             [value |-> Top(th[t]).node.value,
                              type |-> Top(th[t]).node.type]))]
    /\ UNCHANGED <<dialect, ansatz, history, simulator>>

\* the next child of a function application is translated first
translate_child(t) ==
    /\ Running(t) /\ Top(th[t]).node.kind = "FunctionCall"
    /\ Len(Top(th[t]).vals) < Len(Top(th[t]).node.args)
    /\ th' = [th EXCEPT ![t].stack =
                Append(@, Frame(Top(th[t]).node.args[Len(Top(th[t]).vals) + 1]))]
    /\ UNCHANGED <<dialect, ansatz, history, simulator>>

\* a translator that keeps the translated children in one buffer shared by
\* all calls
ArgumentsShared(t) ==
    LET others == {u \in Threads \ {t} :
                      /\ th[u].pc = "running"
                      /\ Top(th[u]).node.kind = "FunctionCall"
                      /\ Len(Top(th[u]).vals) = Len(Top(th[t]).vals)}
    IN  IF others = {} THEN Top(th[t]).vals
        ELSE Top(th[CHOOSE u \in others : TRUE]).vals

\* the arguments the callable is applied to: the translated children
Arguments(t) == Top(th[t]).vals

\* all children translated, the operator known: the callable is applied
apply_function(t) ==
    /\ Running(t) /\ Top(th[t]).node.kind = "FunctionCall"
    /\ Len(Top(th[t]).vals) = Len(Top(th[t]).node.args)
    /\ Top(th[t]).node.name \in function_names(dialect)
    /\ LET name == Top(th[t]).node.name
           args == Arguments(t)
           out  == known_functions(dialect, name, args)
           s    == [th[t] EXCEPT !.calls =
                      Append(@, [path |-> PathOf(th[t].stack), name |-> name,
                                 args |-> args, outcome |-> out])]
       IN  th' = [th EXCEPT ![t] = IF out.ok THEN Return(s, out.value)
                                             ELSE Raise(s, out)]
    /\ UNCHANGED <<dialect, ansatz, history, simulator>>

\* all children translated, the operator unknown to the dialect
unsupported_operator(t) ==
    /\ Running(t) /\ Top(th[t]).node.kind = "FunctionCall"
    /\ Len(Top(th[t]).vals) = Len(Top(th[t]).node.args)
    /\ Top(th[t]).node.name \notin function_names(dialect)
    /\ th' = [th EXCEPT ![t] =
                Raise(@, Err("UnsupportedOperator",
                             [operator |-> Top(th[t]).node.name,
                              dialect |-> dialect]))]
    /\ UNCHANGED <<dialect, ansatz, history, simulator>>

\* the caller hands a translated Quil expression to expression_from_pyquil
convert_back(t) ==
    /\ th[t].pc = "done" /\ th[t].outcome.ok /\ dialect = "QUIL_DIALECT"
    /\ th' = [th EXCEPT ![t].pc = "converted",
                        ![t].back = expression_from_pyquil(th[t].outcome.value)]
    /\ UNCHANGED <<dialect, ansatz, history, simulator>>

Step(t) ==
    \/ translate_number(t)
    \/ translate_symbol(t)
    \/ translate_unsupported(t)
    \/ translate_child(t)
    \/ apply_function(t)
    \/ unsupported_operator(t)
    \/ convert_back(t)

Next == \E t \in Threads : Step(t)

(***************************************************************************)
(* Ansatz.  The object is modelled with a concrete subclass in mind whose  *)
(* _generate_circuit builds a new circuit from number_of_layers and the    *)
(* parameters, and whose get_symbols lists one symbol per layer.           *)
(***************************************************************************)
None == [kind |-> "None"]

Truthy(flag) == flag = "True"

\* the n-th circuit object built, for the given parameters
Circuit(n, layers, params) ==
    [kind |-> "Circuit", id |-> n, number_of_layers |-> layers, params |-> params]

\* Ansatz._generate_circuit(params), the g-th circuit having been built before
_generate_circuit(a, g, params) == Circuit(g + 1, a.number_of_layers, params)

get_symbols(a) == [i \in 1..a.number_of_layers |-> [name |-> "theta", index |-> i]]

create_symbols_map(symbols, params) ==
    [i \in 1..Len(symbols) |-> <<symbols[i], params.values[i]>>]

evaluate(circuit, symbols_map) ==
    [kind |-> "Circuit", evaluated |-> circuit, symbols_map |-> symbols_map]

Invocation(fn, args) == [fn |-> fn, args |-> args]

\* the result of a method: what it returns or raises, and the calls it made
Result(outcome, trace) == [outcome |-> outcome, trace |-> trace]

\* Ansatz.__init__
Ansatz(flag, number_of_layers) ==
    [supports_parametrized_circuits |-> flag,
     number_of_layers |-> number_of_layers,
     _parametrized_circuit |-> None]

\* the property Ansatz.parametrized_circuit
parametrized_circuit(a, g) ==
    IF a._parametrized_circuit = None
    THEN IF Truthy(a.supports_parametrized_circuits)
         THEN Result(Ok(_generate_circuit(a, g, None)),
                     <<Invocation("_generate_circuit", None)>>)
         ELSE Result(Err("NotImplementedError",
                         [message |-> "does not support parametrized circuits."]),
                     <<>>)
    ELSE Result(Ok(a._parametrized_circuit), <<>>)

\* the property Ansatz.number_of_params
number_of_params(a) ==
    IF Truthy(a.supports_parametrized_circuits)
    THEN Result(Ok([kind |-> "int", value |-> Len(get_symbols(a))]),
                <<Invocation("get_symbols", None)>>)
    ELSE Result(Err("NotImplementedError", [message |-> ""]), <<>>)

ParametersCantBeNone ==
    Err("Exception", [message |-> "Parameters can't be None for executable circuit."])

\* get_executable_circuit without the check of its parameters
get_executable_circuit_unchecked(a, g, params) ==
    IF Truthy(a.supports_parametrized_circuits) /\ params # None
    THEN LET symbols == get_symbols(a)
             symbols_map == create_symbols_map(symbols, params)
             pc == parametrized_circuit(a, g)
         IN  IF pc.outcome.ok
             THEN Result(Ok(evaluate(pc.outcome.value, symbols_map)),
                         <<Invocation("get_symbols", None)>> \o pc.trace
                           \o <<Invocation("evaluate", symbols_map)>>)
             ELSE Result(pc.outcome, <<Invocation("get_symbols", None)>> \o pc.trace)
    ELSE Result(Ok(_generate_circuit(a, g, params)),
                <<Invocation("_generate_circuit", params)>>)

\* Ansatz.get_executable_circuit(params)
get_executable_circuit(a, g, params) ==
    IF params = None
    THEN Result(ParametersCantBeNone, <<>>)
    ELSE IF Truthy(a.supports_parametrized_circuits)
         THEN LET symbols == get_symbols(a)
                  symbols_map == create_symbols_map(symbols, params)
                  pc == parametrized_circuit(a, g)
              IN  IF pc.outcome.ok
                  THEN Result(Ok(evaluate(pc.outcome.value, symbols_map)),
                              <<Invocation("get_symbols", None)>> \o pc.trace
                                \o <<Invocation("evaluate", symbols_map)>>)
                  ELSE Result(pc.outcome,
                              <<Invocation("get_symbols", None)>> \o pc.trace)
         ELSE Result(Ok(_generate_circuit(a, g, params)),
                     <<Invocation("_generate_circuit", params)>>)

\* the parameter arrays handed to an ansatz of the given number of layers
Parameters(layers) ==
    {[kind |-> "array", values |-> [i \in 1..layers |-> v]] : v \in 0..1}

Generated(trace) ==
    Cardinality({i \in 1..Len(trace) : trace[i].fn = "_generate_circuit"})

\* a method has run: its result and its calls are recorded.  No method of
\* the class assigns a field after __init__.
Record(op, params, r, read) ==
    /\ history' = [ops |-> history.ops + 1,
                   generated |-> history.generated + Generated(r.trace),
                   reads |-> history.reads + (IF read THEN 1 ELSE 0),
                   last |-> [op |-> op, params |-> params,
                             outcome |-> r.outcome, trace |-> r.trace]]
    /\ ansatz' = ansatz
    /\ UNCHANGED <<dialect, th, simulator>>

ReadParametrizedCircuit ==
    /\ history.ops < MaxOps
    /\ Record("parametrized_circuit", None,
              parametrized_circuit(ansatz, history.generated), TRUE)

ReadNumberOfParams ==
    /\ history.ops < MaxOps
    /\ Record("number_of_params", None, number_of_params(ansatz), FALSE)

GetExecutableCircuit ==
    /\ history.ops < MaxOps
    /\ \E params \in Parameters(ansatz.number_of_layers) \cup {None} :
          Record("get_executable_circuit", params,
                 get_executable_circuit(ansatz, history.generated, params),
                 params # None /\ Truthy(ansatz.supports_parametrized_circuits))

NoHistory == [ops |-> 0, generated |-> 0, reads |-> 0,
              last |-> [op |-> "__init__", params |-> None,
                        outcome |-> Ok(None), trace |-> <<>>]]

\* the variables of the parts a specification leaves out
NoTranslation == dialect = "QUIL_DIALECT" /\ th = [t \in Threads |-> Idle]

NoSimulator == simulator = [op |-> "__init__"]

NoAnsatz == ansatz = Ansatz("None", 1) /\ history = NoHistory

InitAnsatz ==
    /\ NoTranslation /\ NoSimulator
    /\ \E flag \in {"True", "False", "None"}, n \in 1..MaxLayers :
          ansatz = Ansatz(flag, n)
    /\ history = NoHistory

NextAnsatz ==
    \/ ReadParametrizedCircuit
    \/ ReadNumberOfParams
    \/ GetExecutableCircuit

SpecAnsatz == InitAnsatz /\ [][NextAnsatz]_vars


(***************************************************************************)
(* MockQuantumSimulator.  A float is kept as a count of 1/Resolution, so   *)
(* 1.0 is Resolution.  A term of an operator is the tuple of its factors,  *)
(* the constant term the empty tuple.                                      *)
(***************************************************************************)
Unbound == [kind |-> "unbound"]
PyInt(n) == [kind |-> "int", value |-> n]

ConstantTerm == <<>>
TermKeys == {ConstantTerm, <<"Z0">>, <<"X1">>}

\* an operator whose terms mapping has the given keys, in their order
SymbolicOperator(terms) == [kind |-> "SymbolicOperator", terms |-> terms]
\* an operator without the attribute terms
PlainOperator == [kind |-> "object"]

HasTerms(operator) == operator.kind = "SymbolicOperator"

\* the value of constant_position after the loop over the first n terms
RECURSIVE ConstantPosition(_, _)
ConstantPosition(terms, n) ==
    IF n = 0 THEN Unbound
    ELSE IF terms[n] = ConstantTerm THEN PyInt(n - 1)
         ELSE ConstantPosition(terms, n - 1)

\* the number of values drawn for a circuit and an operator
Length(n_qubits, operator) ==
    IF HasTerms(operator) THEN Len(operator.terms) ELSE n_qubits

\* MockQuantumSimulator.get_expectation_values; randoms are the values
\* random.random() returns, in the order of the calls
get_expectation_values(n_qubits, operator, randoms) ==
    LET n_operator == IF HasTerms(operator) THEN PyInt(Len(operator.terms)) ELSE None
        constant_position ==
            IF HasTerms(operator)
            THEN ConstantPosition(operator.terms, Len(operator.terms))
            ELSE Unbound
        length == IF n_operator # None THEN n_operator.value ELSE n_qubits
        values == [i \in 1..length |-> 2 * randoms[i] - Resolution]
    IN  IF n_operator # None
        THEN IF constant_position = Unbound
             THEN Err("UnboundLocalError", [name |-> "constant_position"])
             ELSE Ok([kind |-> "ExpectationValues",
                      values |-> [values EXCEPT ![constant_position.value + 1] =
                                                    Resolution]])
        ELSE Ok([kind |-> "ExpectationValues", values |-> values])

\* MockQuantumSimulator.get_exact_expectation_values
get_exact_expectation_values(n_qubits, operator, randoms) ==
    get_expectation_values(n_qubits, operator, randoms)

TermLists ==
    {terms \in UNION {[1..n -> TermKeys] : n \in 0..MaxTerms} :
        \A i \in 1..Len(terms), j \in 1..Len(terms) : terms[i] = terms[j] => i = j}

Operators == {PlainOperator} \cup {SymbolicOperator(terms) : terms \in TermLists}

GetExpectationValues ==
    /\ \E n_qubits \in 0..MaxQubits, operator \in Operators :
         \E randoms \in [1..Length(n_qubits, operator) -> 0..(Resolution - 1)] :
           simulator' = [op |-> "get_expectation_values", n_qubits |-> n_qubits,
                         operator |-> operator,
                         outcome |-> get_expectation_values(n_qubits, operator,
                                                            randoms)]
    /\ UNCHANGED <<dialect, th, ansatz, history>>

GetExactExpectationValues ==
    /\ \E n_qubits \in 0..MaxQubits, operator \in Operators :
         \E randoms \in [1..Length(n_qubits, operator) -> 0..(Resolution - 1)] :
           simulator' = [op |-> "get_exact_expectation_values",
                         n_qubits |-> n_qubits, operator |-> operator,
                         outcome |-> get_exact_expectation_values(n_qubits, operator,
                                                                  randoms)]
    /\ UNCHANGED <<dialect, th, ansatz, history>>

InitMock == NoTranslation /\ NoAnsatz /\ NoSimulator

NextMock ==
    \/ GetExpectationValues
    \/ GetExactExpectationValues

SpecMock == InitMock /\ [][NextMock]_vars

(***************************************************************************)
(* The trees translated: every application of an operator name to one or   *)
(* two leaves, and over those one more level of application.               *)
(***************************************************************************)
OperatorNames == QUIL_function_names \cup {"log"}
InnerNames == {"sub", "div", "tan", "log"}

Leaves == {Symbol(n) : n \in SymbolNames} \cup {Number(n) : n \in 0..MaxNumber}
              \cup {Other("text", "str")}

ArgLists(S) == {<<a>> : a \in S} \cup {<<a, b>> : a \in S, b \in S}

Applications(names, arglists) ==
    {FunctionCall(n, args) : n \in names, args \in arglists}

Depth1 == Applications(OperatorNames, ArgLists(Leaves))

Depth2 ==
    LET inner == Applications(InnerNames, ArgLists(Leaves))
    IN  Applications(OperatorNames,
                     {<<a>> : a \in inner}
                       \cup {<<a, b>> : a \in inner, b \in Leaves}
                       \cup {<<b, a>> : a \in inner, b \in Leaves})

Trees == Leaves \cup Depth1 \cup Depth2

\* one call of translate, on any tree under any dialect
Init ==
    /\ NoAnsatz /\ NoSimulator
    /\ dialect \in Dialects
    /\ \E tree \in Trees : th = [t \in Threads |-> IF t = "t1" THEN Call(tree, 1) ELSE Idle]

Spec == Init /\ [][Next]_vars

(***************************************************************************)
(* The translation of a tree as one value: what a call returns when it     *)
(* runs alone.                                                             *)
(***************************************************************************)
RECURSIVE translate(_, _)
translate(tree, d) ==
    CASE tree.kind = "Number" -> Ok(number_factory(d, tree.value))
      [] tree.kind = "Symbol" -> Ok(symbol_factory(d, tree))
      [] tree.kind = "Other" ->
            Err("UnsupportedExpressionKind",
                [value |-> tree.value, type |-> tree.type])
      [] tree.kind = "FunctionCall" ->
            LET outs   == [i \in 1..Len(tree.args) |-> translate(tree.args[i], d)]
                failed == {i \in 1..Len(tree.args) : ~outs[i].ok}
            IN  IF failed # {}
                THEN outs[CHOOSE i \in failed : \A j \in failed : i <= j]
                ELSE IF tree.name \notin function_names(d)
                     THEN Err("UnsupportedOperator",
                              [operator |-> tree.name, dialect |-> d])
                     ELSE known_functions(d, tree.name,
                                          [i \in 1..Len(tree.args) |-> outs[i].value])

(***************************************************************************)
(* Concurrent callers: two threads translate under one shared dialect,     *)
(* each making up to MaxCalls calls.                                       *)
(***************************************************************************)
SharedTrees ==
    Leaves
      \cup {FunctionCall(n, <<Symbol("x"), Number(MaxNumber)>>) :
               n \in {"add", "sub", "log"}}
      \cup {FunctionCall("tan", <<Symbol("y")>>),
            FunctionCall("cos", <<Other("text", "str")>>),
            FunctionCall("add", <<FunctionCall("cos", <<Symbol("x")>>),
                                  Symbol("y")>>)}

\* a thread whose call has returned starts another
call_again(t) ==
    /\ th[t].pc \in {"done", "converted"}
    /\ th[t].n < MaxCalls
    /\ \E tree \in SharedTrees : th' = [th EXCEPT ![t] = Call(tree, th[t].n + 1)]
    /\ UNCHANGED <<dialect, ansatz, history, simulator>>

InitShared ==
    /\ NoAnsatz /\ NoSimulator
    /\ dialect \in Dialects
    /\ \E a \in SharedTrees, b \in SharedTrees :
          th = [t \in Threads |-> IF t = "t1" THEN Call(a, 1) ELSE Call(b, 1)]

NextShared ==
    \/ Next
    \/ \E t \in Threads : call_again(t)

SpecShared == InitShared /\ [][NextShared]_vars

(***************************************************************************)
(* Vocabulary of the translator's properties.                              *)
(***************************************************************************)
RECURSIVE Subtree(_, _)
Subtree(tree, path) ==
    IF path = <<>> THEN tree ELSE Subtree(tree.args[Head(path)], Tail(path))

\* the names of the symbols of a tree
RECURSIVE free_symbols(_)
free_symbols(tree) ==
    CASE tree.kind = "Symbol" -> {tree.name}
      [] tree.kind = "FunctionCall" ->
            UNION {free_symbols(tree.args[i]) : i \in 1..Len(tree.args)}
      [] OTHER -> {}

\* the names of the symbols of a backend-native expression
RECURSIVE native_symbols(_)
native_symbols(v) ==
    CASE v.kind \in {"Parameter", "Name"} -> {v.name}
      [] v.kind = "Function" -> native_symbols(v.expression)
      [] v.kind \in {"Add", "Sub", "Mul", "Div", "Pow"} ->
            native_symbols(v.op1) \cup native_symbols(v.op2)
      [] OTHER -> {}

Returned(t) == th[t].pc \in {"done", "converted"}

ProducedAt(t, path) == {p.value : p \in {q \in th[t].produced : q.path = path}}

CallsAt(t, path) == {i \in 1..Len(th[t].calls) : th[t].calls[i].path = path}

\* the frame of thread t whose node has all its children translated
ReadyToApply(t) ==
    /\ Running(t)
    /\ Top(th[t]).node.kind = "FunctionCall"
    /\ Len(Top(th[t]).vals) = Len(Top(th[t]).node.args)

\* C1: a function application whose operator the dialect maps has its
\* children translated first and then the mapped callable invoked exactly
\* once, with the children's translations in their original order; the node
\* translates to what that invocation returns.  Quil's "tan" is one such
\* callable: a single invocation, returning SIN(arg)/COS(arg).
C1_CallableAppliedToChildren ==
    \A t \in Threads :
      /\ \A i \in 1..Len(th[t].calls) :
           LET e    == th[t].calls[i]
               node == Subtree(th[t].tree, e.path)
           IN  /\ node.kind = "FunctionCall"
               /\ node.name = e.name
               /\ e.name \in function_names(dialect)
               /\ Len(e.args) = Len(node.args)
               /\ \A k \in 1..Len(node.args) :
                    ProducedAt(t, Append(e.path, k)) = {e.args[k]}
               /\ CallsAt(t, e.path) = {i}
               /\ e.outcome = known_functions(dialect, e.name, e.args)
               /\ IF e.outcome.ok
                  THEN ProducedAt(t, e.path) = {e.outcome.value}
                  ELSE Returned(t) /\ th[t].outcome = e.outcome
               /\ (dialect = "QUIL_DIALECT" /\ e.name = "tan" /\ Len(e.args) = 1)
                    => e.outcome =
                         Ok(BinaryExp("Div", Function("SIN", e.args[1]),
                                             Function("COS", e.args[1])))
      /\ \A p \in th[t].produced :
           /\ ProducedAt(t, p.path) = {p.value}
           /\ Subtree(th[t].tree, p.path).kind = "FunctionCall"
                => /\ CallsAt(t, p.path) # {}
                   /\ Subtree(th[t].tree, p.path).name \in function_names(dialect)
      /\ ReadyToApply(t) => CallsAt(t, PathOf(th[t].stack)) = {}
      /\ (Returned(t) /\ th[t].outcome.ok) =>
            ProducedAt(t, <<>>) = {th[t].outcome.value}

\* C1 witness: Quil's tan was applied to a translated child, below a
\* two-argument application that was applied too
C1_Witness ==
    /\ dialect = "QUIL_DIALECT"
    /\ th["t1"].pc = "done" /\ th["t1"].outcome.ok
    /\ th["t1"].tree.kind = "FunctionCall" /\ Len(th["t1"].tree.args) = 2
    /\ \E i \in 1..Len(th["t1"].calls) :
          th["t1"].calls[i].name = "tan" /\ th["t1"].calls[i].outcome.ok
    /\ Len(th["t1"].calls) = 2

\* C2: a function application whose operator name the dialect does not map
\* makes translate fail with UnsupportedOperator naming that operator
C2_AbsentOperatorRaisesUnsupportedOperator ==
    \A t \in Threads :
      (/\ Returned(t)
       /\ th[t].tree.kind = "FunctionCall"
       /\ th[t].tree.name \notin function_names(dialect))
      => /\ ~th[t].outcome.ok
         /\ th[t].outcome.error.type = "UnsupportedOperator"
         /\ th[t].outcome.error.info.operator = th[t].tree.name

UnsupportedKind(node) ==
    Err("UnsupportedExpressionKind", [value |-> node.value, type |-> node.type])

C3_Returned ==
    \A t \in Threads :
      /\ (Returned(t) /\ th[t].tree.kind = "Other")
            => th[t].outcome = UnsupportedKind(th[t].tree)
      /\ (th[t].pc = "converted" /\ ~IsNumber(th[t].outcome.value))
            => /\ ~th[t].back.ok
               /\ th[t].back.error.type = "NotImplementedError"
               /\ th[t].back.error.info.expression = th[t].outcome.value
               /\ th[t].back.error.info.type = th[t].outcome.value.kind

C3_Step ==
    \A t \in Threads :
      (Running(t) /\ Top(th[t]).node.kind = "Other" /\ th'[t] # th[t])
      => /\ th'[t].pc = "done"
         /\ th'[t].outcome = UnsupportedKind(Top(th[t]).node)

\* C3: the step that translates a node of an unregistered kind ends the call
\* with UnsupportedExpressionKind carrying the node's value and type, and
\* expression_from_pyquil of anything but a Number raises
\* NotImplementedError carrying the expression and its type
C3_UnregisteredKindsRaise == []C3_Returned /\ [][C3_Step]_vars

\* C3 witness: a translated Quil function was handed to
\* expression_from_pyquil, which raised
C3_Witness ==
    /\ th["t1"].pc = "converted"
    /\ th["t1"].outcome.value.kind = "Function"
    /\ ~th["t1"].back.ok

SymbolPaths(t) ==
    {p \in th[t].produced : Subtree(th[t].tree, p.path).kind = "Symbol"}

\* C4: two symbol nodes translate to equal native symbols exactly when they
\* carry the same name, and the symbols of a translation are the free
\* symbols of the tree
C4_SymbolNamesPreserved ==
    \A t \in Threads :
      /\ \A p \in SymbolPaths(t), q \in SymbolPaths(t) :
           (p.value = q.value) <=>
             (Subtree(th[t].tree, p.path).name = Subtree(th[t].tree, q.path).name)
      /\ \A p \in SymbolPaths(t) :
           native_symbols(p.value) = {Subtree(th[t].tree, p.path).name}
      /\ (Returned(t) /\ th[t].outcome.ok)
            => native_symbols(th[t].outcome.value) = free_symbols(th[t].tree)

\* C4 witness: a Quil translation of a tree that names the symbol y twice
C4_Witness ==
    /\ dialect = "QUIL_DIALECT"
    /\ th["t1"].pc = "done" /\ th["t1"].outcome.ok
    /\ \E p \in SymbolPaths("t1"), q \in SymbolPaths("t1") :
          /\ p.path # q.path
          /\ Subtree(th["t1"].tree, p.path).name = "y"
          /\ Subtree(th["t1"].tree, q.path).name = "y"

\* C8: a numeric literal translates to exactly that number, at the root and
\* below it, and expression_from_pyquil returns a Number unchanged
C8_NumbersPassThrough ==
    \A t \in Threads :
      /\ \A p \in th[t].produced :
           Subtree(th[t].tree, p.path).kind = "Number"
             => p.value = Subtree(th[t].tree, p.path).value
      /\ (Returned(t) /\ th[t].tree.kind = "Number")
            => th[t].outcome = Ok(th[t].tree.value)
      /\ (th[t].pc = "converted" /\ IsNumber(th[t].outcome.value))
            => th[t].back = Ok(th[t].outcome.value)

\* C8 witness: the literal 2 translated under the Quil dialect and handed
\* back to expression_from_pyquil
C8_Witness ==
    /\ dialect = "QUIL_DIALECT"
    /\ th["t1"].pc = "converted"
    /\ th["t1"].tree = Number(2)

C5_Returned ==
    /\ \A t \in Threads :
          Returned(t) => th[t].outcome = translate(th[t].tree, dialect)
    /\ \A t \in Threads, u \in Threads :
          (Returned(t) /\ Returned(u) /\ th[t].tree = th[u].tree)
            => th[t].outcome = th[u].outcome

C5_Step ==
    /\ dialect' = dialect
    /\ \A t \in Threads : th'[t].n = th[t].n => th'[t].tree = th[t].tree

\* C5: however the steps of concurrent calls interleave, each call returns
\* what it returns alone, equal calls return equal results, and no step
\* changes the dialect or the tree of a call
C5_TranslateIsPure == []C5_Returned /\ [][C5_Step]_vars

\* C5 witness: a second call has returned an expression while the other
\* thread is in the middle of translating the same function application
C5_Witness ==
    /\ th["t1"].pc = "done" /\ th["t1"].n = 2 /\ th["t1"].outcome.ok
    /\ th["t1"].tree.kind = "FunctionCall"
    /\ th["t2"].pc = "running" /\ th["t2"].tree = th["t1"].tree
    /\ Len(th["t2"].stack) = 1 /\ Len(th["t2"].stack[1].vals) = 1

\* C6: once parametrized_circuit has been read on an ansatz that supports
\* parametrized circuits, the circuit is stored in _parametrized_circuit and
\* _generate_circuit is not called again
C6_ParametrizedCircuitIsCached ==
    (Truthy(ansatz.supports_parametrized_circuits) /\ history.reads >= 1)
      => /\ ansatz._parametrized_circuit # None
         /\ history.generated <= 1

C9_Last ==
    history.last.op = "get_executable_circuit" =>
      LET l == history.last
          symbols_map == create_symbols_map(get_symbols(ansatz), l.params)
      IN  IF l.params = None
          THEN l.outcome = ParametersCantBeNone /\ l.trace = <<>>
          ELSE IF Truthy(ansatz.supports_parametrized_circuits)
               THEN /\ \A i \in 1..Len(l.trace) :
                         l.trace[i].fn = "_generate_circuit" => l.trace[i].args = None
                    /\ l.trace[1] = Invocation("get_symbols", None)
                    /\ l.trace[Len(l.trace)] = Invocation("evaluate", symbols_map)
                    /\ l.outcome.ok
                    /\ l.outcome.value.symbols_map = symbols_map
                    /\ l.outcome.value.evaluated.params = None
               ELSE /\ l.trace = <<Invocation("_generate_circuit", l.params)>>
                    /\ l.outcome = Ok(Circuit(history.generated,
                                              ansatz.number_of_layers, l.params))

C9_Step ==
    (/\ history'.ops = history.ops + 1
     /\ history'.last.op = "get_executable_circuit"
     /\ history'.last.params = None)
    => /\ ansatz' = ansatz
       /\ history'.generated = history.generated

\* C9: get_executable_circuit(None) raises "Parameters can't be None for
\* executable circuit." before it calls anything and changes no field; with
\* parameters it calls _generate_circuit(params) only when the ansatz does
\* not support parametrized circuits, and otherwise evaluates
\* parametrized_circuit on the map of get_symbols() to the parameters
C9_ExecutableCircuit == []C9_Last /\ [][C9_Step]_vars

\* C9 witness: get_executable_circuit(None) on an ansatz that supports
\* parametrized circuits and has generated one before
C9_Witness ==
    /\ history.last.op = "get_executable_circuit"
    /\ history.last.params = None
    /\ Truthy(ansatz.supports_parametrized_circuits)
    /\ history.generated = 1

\* C10: for an operator with terms, get_expectation_values returns one value
\* per term, 1.0 at the constant term and values in [-1, 1) elsewhere; for an
\* operator without terms it returns one value per qubit
C10_OneValuePerTerm ==
    simulator.op # "__init__" =>
      /\ simulator.outcome.ok
      /\ LET values == simulator.outcome.value.values
         IN  IF HasTerms(simulator.operator)
             THEN /\ Len(values) = Len(simulator.operator.terms)
                  /\ \A i \in 1..Len(values) :
                       IF simulator.operator.terms[i] = ConstantTerm
                       THEN values[i] = Resolution
                       ELSE -Resolution <= values[i] /\ values[i] < Resolution
             ELSE Len(values) = simulator.n_qubits

====
